---- MODULE Spec2Model ----
(***************************************************************************)
(* The cache-and-refresh orchestrator of the LeetCode leaderboard route    *)
(* (src/src/app/api/leetcode/route.ts): loadCachedUsers, saveUserData,     *)
(* fetchLeetCodeUser, fetchUsersInParallel, processUserData,               *)
(* refreshUsersInBackground and the GET handler.                           *)
(*                                                                         *)
(* One action is one uninterrupted stretch of the JavaScript between two   *)
(* awaits: a handler runs until it awaits a storage call, an upstream      *)
(* fetch or a timer, and the completion of that call is the next action.   *)
(***************************************************************************)
EXTENDS Integers, Sequences, FiniteSets, TLC

(***************************************************************************)
(* Configuration of route.ts                                               *)
(***************************************************************************)

\* route.ts:35-53, the roster as written in the source.
AllUsernames ==
  << "Kho_ja", "jdu211171", "Ismoilova1031", "edSJVRbEh6",
     "pardayevotabek30gmailcom", "ayunusov238", "Fazliddin_001",
     "Amrullayev", "abdufattohcoder2004", "MrPyDeveloper", "javohir07",
     "otajonovmuhammadali", "agadev", "muza_Sano", "yamamoto05",
     "Ibroximov_Diyorbek", "Daydi" >>

\* Bound: with a storage that never throws, a whole request is followed on
\* the first RosterSize names of the roster.
RosterSize == 4

\* Bound: with a storage that may throw, a whole request is followed on the
\* first FaultRosterSize names of the roster.
FaultRosterSize == 1

\* Bound: the storage calls (reads and writes of leetCodeUser and fetchLog)
\* that may throw while one request is served.
MaxStorageFaults == 3

\* Bound: saveUserData, on its own, is followed while the clock advances by
\* up to MaxTicks milliseconds, with up to MaxTicks + 1 calls for one key.
MaxTicks == 2

\* Bound: the round trip of a record through saveUserData and
\* loadCachedUsers is followed for counts and streaks of 0 .. MaxCount.
MaxCount == 2

\* Bound: loadCachedUsers and fetchUsersInParallel, each on its own, are
\* followed on the first n names of the roster for every n up to MaxNames.
MaxNames == 6
LiveRosterSize == 2
MaxSlots == 11
MaxSparseSlots == 27

\* The first n names of the roster.
FirstNames(n) == SubSeq(AllUsernames, 1, n)

\* route.ts:56
CACHE_EXPIRY_MS == 5 * 60 * 60 * 1000

\* route.ts:57
MAX_CONCURRENT_REQUESTS == 5

\* route.ts:475 and 483, the literal 3 of slice(0, 3) and slice(3).
QUICK_FETCH_COUNT == 3

\* The instant (Date.now(), ms) at which the modelled request is served. All
\* of a request happens at this instant: its duration is far below the TTL.
RequestTime == 2 * CACHE_EXPIRY_MS

(***************************************************************************)
(* Helpers on sequences                                                    *)
(***************************************************************************)

Range(s) == { s[i] : i \in DOMAIN s }

Min(a, b) == IF a <= b THEN a ELSE b

\* Array.prototype.slice(from, to) with 0-based, end-exclusive indices.
Slice(s, from, to) == SubSeq(s, from + 1, Min(to, Len(s)))

RECURSIVE SeqFilter(_, _)
\* The elements of s that lie in the set keep, in order.
SeqFilter(s, keep) ==
  IF s = << >> THEN << >>
  ELSE IF Head(s) \in keep THEN << Head(s) >> \o SeqFilter(Tail(s), keep)
       ELSE SeqFilter(Tail(s), keep)

(***************************************************************************)
(* The Freshness Cache (table leetCodeUser) and loadCachedUsers            *)
(***************************************************************************)

\* A row of leetCodeUser: the key, the version of the profile data it holds
\* (rev 0: written before this request; rev n > 0: the n-th upstream fetch of
\* that user in this request) and the instant of the write.
Row(id, rev, lastFetch) == [ id |-> id, rev |-> rev, lastFetch |-> lastFetch ]

\* The UserData built from a row (route.ts:94-111 and 117-134): lastFetch is
\* not part of it.
UserData(id, rev) == [ id |-> id, rev |-> rev ]

isCacheFreshOff(row, t) == row.lastFetch >= t - CACHE_EXPIRY_MS

\* route.ts:89-90
isCacheFresh(row, t) == row.lastFetch > t - CACHE_EXPIRY_MS

\* part_002:105: the expiry of the snapshot the Redis-backed route keeps.
SNAPSHOT_EXPIRY_MS == 60 * 60 * 1000

\* part_002:130-136: loadCache returns the snapshot written at timestamp iff
\* Date.now() - timestamp < CACHE_EXPIRY_MS.
loadCacheHit(timestamp, t) == t - timestamp < SNAPSHOT_EXPIRY_MS

RECURSIVE LoadLoop(_, _, _, _, _)
\* route.ts:79-136, the loop over usersToFetch, from index i on.
LoadLoop(usersToFetch, rows, t, i, acc) ==
  IF i > Len(usersToFetch) THEN acc
  ELSE
    LET username == usersToFetch[i] IN
    IF username \notin DOMAIN rows
    THEN LoadLoop(usersToFetch, rows, t, i + 1,
           [ acc EXCEPT !.usersToRefresh = Append(@, username) ])
    ELSE
      LET cachedUser == rows[username]
          asUser == UserData(cachedUser.id, cachedUser.rev)
      IN IF isCacheFresh(cachedUser, t)
         THEN LoadLoop(usersToFetch, rows, t, i + 1,
                [ acc EXCEPT !.cachedUsers = Append(@, asUser) ])
         ELSE LoadLoop(usersToFetch, rows, t, i + 1,
                [ acc EXCEPT !.usersToRefresh = Append(@, username),
                             !.cachedUsers = Append(@, asUser) ])

loadCachedUsersOff(usersToFetch, table, t, readOk) ==
  LET all == LoadLoop(usersToFetch,
                      [ u \in (DOMAIN table) \cap Range(usersToFetch) |-> table[u] ],
                      t, 1, [ cachedUsers |-> << >>, usersToRefresh |-> << >> ])
  IN IF readOk
     THEN [ all EXCEPT !.usersToRefresh = SeqFilter(@, Range(@) \ DOMAIN table) ]
     ELSE [ cachedUsers |-> << >>, usersToRefresh |-> usersToFetch ]

\* route.ts:62-143. readOk = FALSE is the findMany that throws (the catch of
\* lines 139-142).
loadCachedUsers(usersToFetch, table, t, readOk) ==
  IF readOk
  THEN LET rows == [ u \in (DOMAIN table) \cap Range(usersToFetch) |-> table[u] ]
       IN LoadLoop(usersToFetch, rows, t, 1,
                   [ cachedUsers |-> << >>, usersToRefresh |-> << >> ])
  ELSE [ cachedUsers |-> << >>, usersToRefresh |-> usersToFetch ]

\* route.ts:23-26, the optional streak of a UserData: one that is there, and
\* the one that is not (undefined).
Streak(current, max) == [ has |-> TRUE, current |-> current, max |-> max ]

NoStreak == [ has |-> FALSE, current |-> 0, max |-> 0 ]

\* JavaScript's streak?.field || 0.
FieldOrZero(streak, field) == IF streak.has THEN streak[field] ELSE 0

SavedColumnsOff(userData) ==
  [ totalSolved |-> userData.totalSolved,
    easyCount |-> userData.problemsByDifficulty.easy,
    mediumCount |-> userData.problemsByDifficulty.medium,
    hardCount |-> userData.problemsByDifficulty.hard,
    currentStreak |-> FieldOrZero(userData.streak, "current"),
    maxStreak |-> FieldOrZero(userData.streak, "current") ]

\* route.ts:153-170, the columns saveUserData writes from userData; the
\* create branch (route.ts:172-184) writes the same.
SavedColumns(userData) ==
  [ totalSolved |-> userData.totalSolved,
    easyCount |-> userData.problemsByDifficulty.easy,
    mediumCount |-> userData.problemsByDifficulty.medium,
    hardCount |-> userData.problemsByDifficulty.hard,
    currentStreak |-> FieldOrZero(userData.streak, "current"),
    maxStreak |-> FieldOrZero(userData.streak, "max") ]

\* route.ts:94-111 (and 117-134), the UserData loadCachedUsers builds from
\* the columns of a row.
LoadedUserData(cachedUser) ==
  [ totalSolved |-> cachedUser.totalSolved,
    problemsByDifficulty |->
      [ easy |-> cachedUser.easyCount,
        medium |-> cachedUser.mediumCount,
        hard |-> cachedUser.hardCount ],
    streak |-> Streak(cachedUser.currentStreak, cachedUser.maxStreak) ]

(***************************************************************************)
(* processUserData                                                         *)
(***************************************************************************)

\* The values of difficulty in submitStats.acSubmissionNum.
Difficulties == { "All", "Easy", "Medium", "Hard" }

\* route.ts:292: submitStats?.acSubmissionNum?.find((s) => s.difficulty ===
\* difficulty)?.count || 0. stats gives, for the difficulties that have an
\* entry, the count of the first such entry; it is empty when submitStats or
\* acSubmissionNum is missing.
CountOf(stats, difficulty) ==
  IF difficulty \in DOMAIN stats THEN stats[difficulty] ELSE 0

ProcessedCountsOff(stats) ==
  [ totalSolved |-> CountOf(stats, "All"),
    problemsByDifficulty |->
      [ easy |-> CountOf(stats, "Easy"),
        medium |-> CountOf(stats, "Medium"),
        hard |-> CountOf(stats, "Hard") ],
    streak |-> Streak(0, 0) ]

\* route.ts:291-294 and 387-400: the counts of the UserData processUserData
\* builds from a matched user; the streak is the one of a user without
\* submission calendar (route.ts:383-385).
ProcessedCounts(stats) ==
  [ totalSolved |-> CountOf(stats, "Easy") + CountOf(stats, "Medium")
                      + CountOf(stats, "Hard"),
    problemsByDifficulty |->
      [ easy |-> CountOf(stats, "Easy"),
        medium |-> CountOf(stats, "Medium"),
        hard |-> CountOf(stats, "Hard") ],
    streak |-> Streak(0, 0) ]

\* The submissionCalendar of a matched user: missing or empty ("absent"), a
\* string JSON.parse or Object.keys throws on ("invalid"), or the JSON of an
\* object whose keys are the decimal numerals of the numbers in keys.
AbsentCalendar == [ kind |-> "absent", keys |-> { } ]

InvalidCalendar == [ kind |-> "invalid", keys |-> { } ]

ObjectCalendar(keys) == [ kind |-> "object", keys |-> keys ]

acceptedSubmissionsOff(submissionCalendar) ==
  IF submissionCalendar.kind = "object" /\ submissionCalendar.keys # { }
  THEN submissionCalendar.keys
  ELSE { 0 }

\* route.ts:296-305: acceptedSubmissions stays [] without a calendar and
\* when parsing throws; otherwise it is parseInt of each key.
acceptedSubmissions(submissionCalendar) ==
  IF submissionCalendar.kind = "object" THEN submissionCalendar.keys ELSE { }

\* route.ts:319, 324: 24 * 60 * 60 seconds.
DAY == 24 * 60 * 60

\* route.ts:313: [...acceptedSubmissions].sort((a, b) => a - b), the
\* timestamps being the distinct keys of the submission calendar.
RECURSIVE sortedSubmissions(_)
sortedSubmissions(dates) ==
  IF dates = { } THEN << >>
  ELSE LET first == CHOOSE d \in dates : \A e \in dates : d <= e
       IN  << first >> \o sortedSubmissions(dates \ { first })

\* route.ts:320-322
hasSubmissionToday(dates, now) ==
  \E date \in dates : date >= now - DAY /\ date <= now

\* route.ts:328-348: the days [checkDate, checkDate + DAY) counted
\* backwards until one has no submission.
RECURSIVE streakDays(_, _)
streakDays(dates, checkDate) ==
  IF \E date \in dates : date >= checkDate /\ date < checkDate + DAY
  THEN 1 + streakDays(dates, checkDate - DAY)
  ELSE 0

\* route.ts:355-364: one iteration of the loop over the sorted timestamps.
HistoricalStep(st, date) ==
  IF st.lastDate = 0 \/ date - st.lastDate <= 2 * DAY
  THEN [ currentStreak |->
           IF st.lastDate = 0 \/ date - st.lastDate >= 12 * 60 * 60
           THEN st.currentStreak + 1 ELSE st.currentStreak,
         maxStreak |-> st.maxStreak,
         lastDate |-> date ]
  ELSE [ currentStreak |-> 1,
         maxStreak |-> IF st.maxStreak >= st.currentStreak
                       THEN st.maxStreak ELSE st.currentStreak,
         lastDate |-> date ]

RECURSIVE HistoricalLoop(_, _, _)
HistoricalLoop(sorted, i, st) ==
  IF i > Len(sorted) THEN st
  ELSE HistoricalLoop(sorted, i + 1, HistoricalStep(st, sorted[i]))

\* route.ts:315-353: currentStreak, maxStreak and lastDate when the loop
\* over the sorted timestamps starts.
BeforeHistory(dates, now) ==
  IF hasSubmissionToday(dates, now)
  THEN [ currentStreak |-> 1 + streakDays(dates, now - DAY - DAY),
         maxStreak |-> 1 + streakDays(dates, now - DAY - DAY),
         lastDate |-> 0 ]
  ELSE [ currentStreak |-> 0, maxStreak |-> 0, lastDate |-> 0 ]

StreakOfOff(dates, now) ==
  IF dates = { } THEN Streak(0, 0)
  ELSE LET st == HistoricalLoop(sortedSubmissions(dates), 1,
                                BeforeHistory(dates, now))
       IN  Streak(st.currentStreak, st.maxStreak)

\* route.ts:309-385: the streak of a user whose submission calendar has the
\* timestamps dates, computed at now = Date.now() / 1000. Nothing in the
\* try block throws for numbers, so the catch of 376-379 is not taken.
StreakOf(dates, now) ==
  IF dates = { } THEN Streak(0, 0)
  ELSE LET st == HistoricalLoop(sortedSubmissions(dates), 1,
                                BeforeHistory(dates, now))
       IN  Streak(st.currentStreak,
                  IF st.maxStreak >= st.currentStreak
                  THEN st.maxStreak ELSE st.currentStreak)

\* What leetcode.user(username) resolves to: a UserProfile whose matchedUser
\* is the user (matched) or null (the user does not exist upstream).
Profile(username, rev, matched) ==
  [ username |-> username, rev |-> rev, matched |-> matched ]

RECURSIVE ProcessLoopOff(_, _, _, _)
ProcessLoopOff(results, roster, i, acc) ==
  IF i > Len(roster) THEN acc
  ELSE
    IF i > Len(results) \/ ~results[i].matched
    THEN ProcessLoopOff(results, roster, i + 1,
           [ acc EXCEPT !.errors = Append(@, roster[i]) ])
    ELSE ProcessLoopOff(results, roster, i + 1,
           [ acc EXCEPT !.users =
               Append(@, UserData(roster[i], results[i].rev)) ])

RECURSIVE ProcessLoop(_, _, _, _)
\* route.ts:272-401, the loop over the roster, from index i on.
ProcessLoop(results, roster, i, acc) ==
  IF i > Len(roster) THEN acc
  ELSE
    IF i > Len(results) \/ ~results[i].matched
    THEN ProcessLoop(results, roster, i + 1,
           [ acc EXCEPT !.errors = Append(@, roster[i]) ])
    ELSE ProcessLoop(results, roster, i + 1,
           [ acc EXCEPT !.users =
               Append(@, UserData(results[i].username, results[i].rev)) ])

\* route.ts:268-404. roster is the module-level `usernames`, whatever list
\* the results were fetched for.
processUserData(results, roster) ==
  ProcessLoop(results, roster, 1, [ users |-> << >>, errors |-> << >> ])

(***************************************************************************)
(* State                                                                   *)
(***************************************************************************)

VARIABLES
  usernames,     \* the roster (route.ts:35); it never changes
  db,            \* table leetCodeUser: a function from the stored ids to rows
  fetchLog,      \* table fetchLog: the number of rows with success TRUE / FALSE
  writes,        \* the saveUserData calls that were made and have not ended
  run,           \* the calls of fetchUsersInParallel
  fetchCount,    \* per username, the upstream fetches issued so far
  seen,          \* history: the ways in which upstream fetches ended so far
  succeeded,     \* history: the upstream fetches that returned a user
  faultsLeft,    \* the number of storage calls that may still throw
  getPc,         \* where the GET handler stands
  loaded,        \* GET's { cachedUsers, usersToRefresh } (route.ts:453)
  processed,     \* GET's { users, errors } of the quick fetch (route.ts:477)
  response,      \* the response GET returned
  clock,         \* the milliseconds that have passed since the request arrived
  input,         \* the argument of a function that is followed on its own
  output         \* what that function returned

vars ==
  << usernames, db, fetchLog, writes, run, fetchCount, seen, succeeded,
     faultsLeft, getPc, loaded, processed, response, clock, input, output >>

\* The state as one record, so that what a handler does between two awaits
\* can be written as a function from state to state.
Cur ==
  [ usernames |-> usernames, db |-> db, fetchLog |-> fetchLog,
    writes |-> writes, run |-> run, fetchCount |-> fetchCount,
    seen |-> seen, succeeded |-> succeeded, faultsLeft |-> faultsLeft,
    getPc |-> getPc,
    loaded |-> loaded, processed |-> processed, response |-> response,
    clock |-> clock, input |-> input, output |-> output ]

Becomes(S) ==
  /\ usernames' = S.usernames
  /\ db' = S.db
  /\ fetchLog' = S.fetchLog
  /\ writes' = S.writes
  /\ run' = S.run
  /\ fetchCount' = S.fetchCount
  /\ seen' = S.seen
  /\ succeeded' = S.succeeded
  /\ faultsLeft' = S.faultsLeft
  /\ getPc' = S.getPc
  /\ loaded' = S.loaded
  /\ processed' = S.processed
  /\ response' = S.response
  /\ clock' = S.clock
  /\ input' = S.input
  /\ output' = S.output

\* bgAll:  refreshUsersInBackground(usersToRefresh), route.ts:459
\* quick:  fetchUsersInParallel(quickFetchUsers), route.ts:476
\* bgRest: refreshUsersInBackground(remainingUsers), route.ts:485
\* alone:  fetchUsersInParallel called on its own, outside a request
RunIds == { "bgAll", "quick", "bgRest", "alone" }

BackgroundRuns == { "bgAll", "bgRest" }

\* How one upstream call can end: the profile, a profile without matchedUser,
\* a thrown error, a thrown HTTP 429.
Outcomes == { "ok", "nomatch", "error", "rateLimited" }

IdleRun ==
  [ pc |-> "idle", names |-> << >>, i |-> 0, out |-> << >>, results |-> << >> ]

NoResponse ==
  [ kind |-> "none", status |-> 0, users |-> << >>, errors |-> << >>,
    refreshing |-> << >>, fromCache |-> FALSE, rateLimited |-> FALSE ]

\* NextResponse.json(body, {status}); a field the body leaves out is FALSE or
\* the empty list here. No response of route.ts sets rateLimited.
Response(kind, status, users, errors, refreshing, fromCache) ==
  [ kind |-> kind, status |-> status, users |-> users, errors |-> errors,
    refreshing |-> refreshing, fromCache |-> fromCache, rateLimited |-> FALSE ]

(***************************************************************************)
(* saveUserData                                                            *)
(***************************************************************************)

\* Date.now() and new Date(). The clock stands still where the time a
\* request takes does not matter; it moves in SpecSave.
Now == RequestTime + clock

\* route.ts:148-185: saveUserData(userData), called by owner, issues the
\* upsert; lastFetch is the `new Date()` of the call.
SaveCall(owner, userData) ==
  [ owner |-> owner, row |-> Row(userData.id, userData.rev, Now) ]

\* Promise.all(users.map(user => saveUserData(user))), route.ts:422 and 480.
SaveCalls(owner, users) == { SaveCall(owner, users[k]) : k \in DOMAIN users }

SavesPending(S, owner) == { w \in S.writes : w.owner = owner }

\* How one saveUserData call can end.
\*   saved:  upsert and createMany succeed (route.ts:151-202)
\*   logged: one of them throws and the catch writes the fetchLog row (203-211)
\*   thrown: one of them throws and so does the fetchLog.create of the catch,
\*           so that saveUserData rejects
SaveEnds == { "saved", "logged", "thrown" }

\* The storage calls that threw in a saveUserData call that ends with end.
SaveFaults(end) == IF end = "saved" THEN 0 ELSE IF end = "logged" THEN 1 ELSE 2

AddLog(log, success) == [ log EXCEPT ![success] = @ + 1 ]

Upsert(table, row) ==
  [ u \in DOMAIN table \cup { row.id } |-> IF u = row.id THEN row ELSE table[u] ]

(***************************************************************************)
(* fetchUsersInParallel, refreshUsersInBackground and the rest of GET, as  *)
(* functions from state to state                                           *)
(***************************************************************************)

BatchAtOff(names, i) == Slice(names, i, i + MAX_CONCURRENT_REQUESTS + 1)

\* route.ts:235
BatchAt(names, i) == Slice(names, i, i + MAX_CONCURRENT_REQUESTS)

\* route.ts:238-247: batch.map starts every fetch of the batch at offset i of
\* run id at once.
IssueBatch(S, id, i) ==
  LET batch == BatchAt(S.run[id].names, i) IN
  [ S EXCEPT
      !.run[id].pc = "fetching",
      !.run[id].i = i,
      !.run[id].out =
         [ k \in 1 .. Len(batch) |->
             [ username |-> batch[k], rev |-> S.fetchCount[batch[k]] + 1,
               st |-> "pending" ] ],
      !.fetchCount =
         [ u \in DOMAIN @ |-> IF u \in Range(batch) THEN @[u] + 1 ELSE @[u] ] ]

Pending(r) == { k \in DOMAIN r.out : r.out[k].st = "pending" }

\* The upstream fetches of run r that are in flight.
InFlight(r) == Cardinality(Pending(r))

RECURSIVE CollectedOff(_, _)
CollectedOff(out, k) ==
  IF k > Len(out) \/ out[k].st = "null" THEN << >>
  ELSE << Profile(out[k].username, out[k].rev, out[k].st = "ok") >>
       \o CollectedOff(out, k + 1)

RECURSIVE Collected(_, _)
\* route.ts:250-254: the results of the batch that are not null, in batch order.
Collected(out, k) ==
  IF k > Len(out) THEN << >>
  ELSE IF out[k].st = "null" THEN Collected(out, k + 1)
       ELSE << Profile(out[k].username, out[k].rev, out[k].st = "ok") >>
            \o Collected(out, k + 1)

\* route.ts:488-493
RespondQuick(S, remainingUsers) ==
  Response("quick", 200, S.processed.users, S.processed.errors,
           remainingUsers, FALSE)

\* route.ts:409-416 (id a background run) or 230-247: the call of
\* fetchUsersInParallel(names), up to its first await. names is not empty.
StartRun(S, id, names) ==
  IssueBatch([ S EXCEPT !.run[id] = [ IdleRun EXCEPT !.names = names ] ], id, 0)

\* route.ts:482-493: the saves of the quick fetch have all resolved; the rest
\* of the list goes to a second background refresh and GET responds.
QuickSaved(S) ==
  LET remainingUsers == Slice(S.loaded.usersToRefresh, QUICK_FETCH_COUNT,
                              Len(S.loaded.usersToRefresh))
      T == IF remainingUsers # << >> THEN StartRun(S, "bgRest", remainingUsers)
           ELSE S
  IN [ T EXCEPT !.getPc = "done",
                !.response = RespondQuick(S, remainingUsers) ]

ReturnedOff(S, id) ==
  LET p == processUserData(S.run[id].results, S.usernames) IN
  IF id \in BackgroundRuns
  THEN [ S EXCEPT !.run[id].pc = "saving",
                  !.run[id].results = << >> ]
  ELSE IF id = "quick"
  THEN LET T == [ S EXCEPT !.run[id].pc = "done",
                           !.run[id].results = << >>,
                           !.processed = p,
                           !.getPc = "quickSave",
                           !.writes = @ \cup SaveCalls(id, p.users) ]
       IN IF p.users = << >> THEN QuickSaved(T) ELSE T
  ELSE [ S EXCEPT !.run[id].pc = "returned" ]

\* What follows the return of fetchUsersInParallel in its caller.
\*   a background run, route.ts:416-422: the results are processed and every
\*     user is handed to saveUserData;
\*   the quick fetch, route.ts:476-480: the same, in GET; with nothing to
\*     save, Promise.all([]) resolves and GET goes on to respond;
\*   a call on its own: nothing.
Returned(S, id) ==
  LET p == processUserData(S.run[id].results, S.usernames) IN
  IF id \in BackgroundRuns
  THEN [ S EXCEPT !.run[id].pc = "saving",
                  !.run[id].results = << >>,
                  !.writes = @ \cup SaveCalls(id, p.users) ]
  ELSE IF id = "quick"
  THEN LET T == [ S EXCEPT !.run[id].pc = "done",
                           !.run[id].results = << >>,
                           !.processed = p,
                           !.getPc = "quickSave",
                           !.writes = @ \cup SaveCalls(id, p.users) ]
       IN IF p.users = << >> THEN QuickSaved(T) ELSE T
  ELSE [ S EXCEPT !.run[id].pc = "returned" ]

\* route.ts:249-260: Promise.all of the batch has resolved; the results that
\* are not null are collected, and the loop waits for the timer or ends.
BatchDone(S, id) ==
  LET r == S.run[id]
      T == [ S EXCEPT !.run[id].results = @ \o Collected(r.out, 1),
                      !.run[id].out = << >> ]
  IN IF r.i + MAX_CONCURRENT_REQUESTS < Len(r.names)
     THEN [ T EXCEPT !.run[id].pc = "delay" ]
     ELSE Returned(T, id)

AnsweredOff(S, id, k, o) ==
  BatchDone([ S EXCEPT
                !.run[id].out[k].st =
                   IF o \in { "error", "rateLimited" } THEN "null" ELSE o,
                !.seen = @ \cup { o } ],
            id)

AnsweredAsUser(S, id, k, o) ==
  LET T == [ S EXCEPT
               !.run[id].out[k].st =
                  IF o \in { "nomatch", "rateLimited" } THEN "null" ELSE "ok",
               !.seen = @ \cup { o },
               !.succeeded =
                  IF o = "ok"
                  THEN @ \cup { [ run |-> id,
                                  username |-> S.run[id].out[k].username,
                                  rev |-> S.run[id].out[k].rev ] }
                  ELSE @ ]
  IN IF Pending(T.run[id]) = { } THEN BatchDone(T, id) ELSE T

\* route.ts:217-225 and 239-246: fetch k of the batch of run id ends with o.
\* A thrown error, a 429 included, becomes null.
Answered(S, id, k, o) ==
  LET T == [ S EXCEPT
               !.run[id].out[k].st =
                  IF o \in { "error", "rateLimited" } THEN "null" ELSE o,
               !.seen = @ \cup { o },
               !.succeeded =
                  IF o = "ok"
                  THEN @ \cup { [ run |-> id,
                                  username |-> S.run[id].out[k].username,
                                  rev |-> S.run[id].out[k].rev ] }
                  ELSE @ ]
  IN IF Pending(T.run[id]) = { } THEN BatchDone(T, id) ELSE T

RespondCachedOff(l) ==
  Response("cached", 200,
           SeqFilter(l.cachedUsers,
                     { c \in Range(l.cachedUsers) :
                         c.id \notin Range(l.usersToRefresh) }),
           << >>, l.usersToRefresh, TRUE)

\* route.ts:464-470
RespondCached(l) ==
  Response("cached", 200, l.cachedUsers, << >>, l.usersToRefresh, TRUE)

CacheCheckedOff(S, l) ==
  LET T == IF l.usersToRefresh # << >>
           THEN StartRun(S, "bgAll", l.usersToRefresh)
           ELSE S
  IN [ T EXCEPT !.loaded = l, !.getPc = "refreshing" ]

\* route.ts:453-476: loadCachedUsers has returned l; the background refresh
\* is launched, and GET responds from the cache or starts the quick fetch.
CacheChecked(S, l) ==
  LET T == IF l.usersToRefresh # << >>
           THEN StartRun(S, "bgAll", l.usersToRefresh)
           ELSE S
      U == [ T EXCEPT !.loaded = l ]
  IN IF l.cachedUsers # << >>
     THEN [ U EXCEPT !.getPc = "done", !.response = RespondCached(l) ]
     ELSE StartRun([ U EXCEPT !.getPc = "quickFetch" ], "quick",
                   Slice(l.usersToRefresh, 0, QUICK_FETCH_COUNT))

\* What the caller of Promise.all does when a saveUserData rejects: it lands
\* in the catch of refreshUsersInBackground (route.ts:435) or of GET
\* (route.ts:494), each of which awaits a fetchLog.create.
Rejected(S, owner) ==
  IF owner \in BackgroundRuns /\ S.run[owner].pc = "saving"
  THEN [ S EXCEPT !.run[owner].pc = "catchLog" ]
  ELSE IF owner = "quick" /\ S.getPc = "quickSave"
  THEN [ S EXCEPT !.getPc = "catchLog" ]
  ELSE S

SaveEndedOff(S, w, end, stored) ==
  LET T == [ S EXCEPT
               !.writes = @ \ { w },
               !.db = IF stored THEN Upsert(@, w.row)
                      ELSE [ u \in DOMAIN @ \ { w.row.id } |-> @[u] ],
               !.fetchLog = IF end = "logged" THEN AddLog(@, FALSE) ELSE @,
               !.faultsLeft = @ - SaveFaults(end) ]
  IN IF end = "thrown" THEN Rejected(T, w.owner)
     ELSE IF w.owner = "quick" /\ T.getPc = "quickSave"
             /\ SavesPending(T, "quick") = { }
     THEN QuickSaved(T)
     ELSE T

\* The saveUserData call w ends. stored: the upsert itself was committed (a
\* createMany that throws afterwards leaves the row written).
SaveEnded(S, w, end, stored) ==
  LET T == [ S EXCEPT
               !.writes = @ \ { w },
               !.db = IF stored THEN Upsert(@, w.row) ELSE @,
               !.fetchLog = IF end = "logged" THEN AddLog(@, FALSE) ELSE @,
               !.faultsLeft = @ - SaveFaults(end) ]
  IN IF end = "thrown" THEN Rejected(T, w.owner)
     ELSE IF w.owner = "quick" /\ T.getPc = "quickSave"
             /\ SavesPending(T, "quick") = { }
     THEN QuickSaved(T)
     ELSE T

\* The rows of the whole table as UserData (route.ts:509-526), in roster order.
FormattedCache(table, roster) ==
  LET ids == SeqFilter(roster, DOMAIN table) IN
  [ k \in DOMAIN ids |-> UserData(table[ids[k]].id, table[ids[k]].rev) ]

(***************************************************************************)
(* Actions: each is what runs between two awaits                           *)
(***************************************************************************)

\* A step in which cost storage calls throw.
MayFault(cost) == faultsLeft >= cost

\* A request for GET /api/leetcode arrives; the handler runs up to the
\* findMany of loadCachedUsers (route.ts:450-453 and 62-77).
Request ==
  /\ getPc = "idle"
  /\ Becomes([ Cur EXCEPT !.getPc = "loading" ])

\* findMany returns or throws: loadCachedUsers ends and GET goes on to its
\* cached response or to the await of the quick fetch (route.ts:78-476).
CheckCache(readOk) ==
  /\ getPc = "loading"
  /\ readOk \/ MayFault(1)
  /\ Becomes(CacheChecked(
       [ Cur EXCEPT !.faultsLeft = IF readOk THEN @ ELSE @ - 1 ],
       loadCachedUsers(usernames, db, Now, readOk)))

\* leetcode.user(username) of fetch k of run id is answered.
FetchReturn(id, k, o) ==
  /\ run[id].pc = "fetching"
  /\ k \in Pending(run[id])
  /\ Becomes(Answered(Cur, id, k, o))

\* route.ts:258-260 and 234-247: the delay between two batches is over and
\* the next batch is issued.
TimerFires(id) ==
  /\ run[id].pc = "delay"
  /\ Becomes(IssueBatch(Cur, id, run[id].i + MAX_CONCURRENT_REQUESTS))

\* A saveUserData call ends.
SaveReturn(w, end, stored) ==
  /\ w \in writes
  /\ end = "saved" => stored
  /\ MayFault(SaveFaults(end))
  /\ Becomes(SaveEnded(Cur, w, end, stored))

\* route.ts:422-433: every save of background run id has resolved and the
\* fetchLog.create of the success row returns or throws.
BackgroundLogged(id, logOk) ==
  /\ run[id].pc = "saving"
  /\ SavesPending(Cur, id) = { }
  /\ logOk \/ MayFault(1)
  /\ Becomes(IF logOk
             THEN [ Cur EXCEPT !.run[id].pc = "done",
                               !.fetchLog = AddLog(@, TRUE) ]
             ELSE [ Cur EXCEPT !.run[id].pc = "catchLog",
                               !.faultsLeft = @ - 1 ])

\* route.ts:435-444: the fetchLog.create of the catch of background run id
\* returns or throws; nobody handles the rejection of the run.
BackgroundCaught(id, logOk) ==
  /\ run[id].pc = "catchLog"
  /\ logOk \/ MayFault(1)
  /\ Becomes(IF logOk
             THEN [ Cur EXCEPT !.run[id].pc = "done",
                               !.fetchLog = AddLog(@, FALSE) ]
             ELSE [ Cur EXCEPT !.run[id].pc = "rejected",
                               !.faultsLeft = @ - 1 ])

\* route.ts:494-503: the fetchLog.create of GET's catch returns, or throws
\* out of the handler, which the framework answers with a bare 500.
GetCaught(logOk) ==
  /\ getPc = "catchLog"
  /\ logOk \/ MayFault(1)
  /\ Becomes(IF logOk
             THEN [ Cur EXCEPT !.getPc = "emergency",
                               !.fetchLog = AddLog(@, FALSE) ]
             ELSE [ Cur EXCEPT !.getPc = "done",
                               !.faultsLeft = @ - 1,
                               !.response = Response("unhandled", 500, << >>,
                                                     << >>, << >>, FALSE) ])

\* route.ts:505-552: the findMany of the emergency path returns or throws.
GetEmergency(readOk) ==
  /\ getPc = "emergency"
  /\ readOk \/ MayFault(1)
  /\ Becomes(IF readOk /\ DOMAIN db # { }
             THEN [ Cur EXCEPT !.getPc = "done",
                               !.response =
                                  Response("emergency", 200,
                                           FormattedCache(db, usernames),
                                           << "SYSTEM" >>, << >>, TRUE) ]
             ELSE [ Cur EXCEPT !.getPc = "done",
                               !.faultsLeft = IF readOk THEN @ ELSE @ - 1,
                               !.response =
                                  Response("error", 500, << >>, << "ALL" >>,
                                           << >>, FALSE) ])

(***************************************************************************)
(* Specifications                                                          *)
(***************************************************************************)

\* A row found at the start of the request was written exactly one TTL ago
\* (stale, by one millisecond) or one millisecond later (fresh).
EarlierWrites ==
  { RequestTime - CACHE_EXPIRY_MS, RequestTime - CACHE_EXPIRY_MS + 1 }

\* The tables that hold rows for some of the names of roster.
Tables(roster) ==
  UNION { [ present -> EarlierWrites ] : present \in SUBSET Range(roster) }

TableOf(written) == [ u \in DOMAIN written |-> Row(u, 0, written[u]) ]

\* The state in which the request arrives, but for input and output.
AtStart(roster, budget) ==
  /\ usernames = roster
  /\ \E written \in Tables(roster) : db = TableOf(written)
  /\ fetchLog = [ b \in BOOLEAN |-> 0 ]
  /\ writes = { }
  /\ run = [ id \in RunIds |-> IdleRun ]
  /\ fetchCount = [ u \in Range(roster) |-> 0 ]
  /\ seen = { }
  /\ succeeded = { }
  /\ faultsLeft = budget
  /\ getPc = "idle"
  /\ loaded = [ cachedUsers |-> << >>, usersToRefresh |-> << >> ]
  /\ processed = [ users |-> << >>, errors |-> << >> ]
  /\ response = NoResponse
  /\ clock = 0

InitWith(roster, budget) ==
  /\ AtStart(roster, budget)
  /\ input = << >>
  /\ output = << >>

\* One request, followed to the end of everything it started, on a roster of
\* FaultRosterSize names, with up to MaxStorageFaults storage calls that
\* throw. No run has more than one batch.
Init == InitWith(FirstNames(FaultRosterSize), MaxStorageFaults)

Next ==
  \/ Request
  \/ \E readOk \in BOOLEAN : CheckCache(readOk)
  \/ \E id \in RunIds, k \in 1 .. MAX_CONCURRENT_REQUESTS, o \in Outcomes :
       FetchReturn(id, k, o)
  \/ \E w \in writes, end \in SaveEnds, stored \in BOOLEAN :
       SaveReturn(w, end, stored)
  \/ \E id \in BackgroundRuns, logOk \in BOOLEAN : BackgroundLogged(id, logOk)
  \/ \E id \in BackgroundRuns, logOk \in BOOLEAN : BackgroundCaught(id, logOk)
  \/ \E logOk \in BOOLEAN : GetCaught(logOk)
  \/ \E readOk \in BOOLEAN : GetEmergency(readOk)

Spec == Init /\ [][Next]_vars

\* One request on a roster of RosterSize names, with a storage that never
\* throws: the catch blocks are not reached.
InitNoFault == InitWith(FirstNames(RosterSize), 0)

NextNoFault ==
  \/ Request
  \/ CheckCache(TRUE)
  \/ \E id \in RunIds, k \in 1 .. MAX_CONCURRENT_REQUESTS, o \in Outcomes :
       FetchReturn(id, k, o)
  \/ \E w \in writes : SaveReturn(w, "saved", TRUE)
  \/ \E id \in BackgroundRuns : BackgroundLogged(id, TRUE)

SpecNoFault == InitNoFault /\ [][NextNoFault]_vars

\* One request on a roster of LiveRosterSize names with a storage that never
\* throws, in a process that goes on running.
InitLive == InitWith(FirstNames(LiveRosterSize), 0)

\* An upstream fetch is in flight: FetchAnswered is enabled.
FetchPending == \E id \in RunIds : Pending(run[id]) # { }

\* An upstream fetch is answered.
FetchAnswered ==
  \E id \in RunIds, k \in 1 .. MAX_CONCURRENT_REQUESTS, o \in Outcomes :
    FetchReturn(id, k, o)

\* The event loop runs every continuation that is ready, and every upstream
\* call and every storage call is answered in the end: weak fairness of
\* each kind of step, that of FetchAnswered written out with FetchPending
\* for ENABLED <<FetchAnswered>>_vars.
EventLoopRuns ==
  /\ WF_vars(Request)
  /\ WF_vars(CheckCache(TRUE))
  /\ []<>(~FetchPending) \/ []<><<FetchAnswered>>_vars
  /\ WF_vars(\E w \in writes : SaveReturn(w, "saved", TRUE))
  /\ WF_vars(\E id \in BackgroundRuns : BackgroundLogged(id, TRUE))

SpecLive == InitLive /\ [][NextNoFault]_vars /\ EventLoopRuns

\* One request on a roster of LiveRosterSize names with a storage that never
\* throws, followed step by step.
SpecCycle == InitLive /\ [][NextNoFault]_vars

\* loadCachedUsers as GET uses it, on rosters of up to MaxNames names.
InitLoad == \E n \in 1 .. MaxNames : InitWith(FirstNames(n), 1)

NextLoad ==
  \/ Request
  \/ \E readOk \in BOOLEAN : CheckCache(readOk)

SpecLoad == InitLoad /\ [][NextLoad]_vars

\* fetchUsersInParallel, called on its own with a list of up to MaxNames
\* names, outside a request: nothing is read from or written to the storage.
InitFetch ==
  \E n \in 1 .. MaxNames :
    /\ InitWith(FirstNames(n), 0)
    /\ DOMAIN db = { }

\* route.ts:230-247: the call fetchUsersInParallel(usernames).
FetchUsersCalled ==
  /\ run["alone"].pc = "idle"
  /\ Becomes(StartRun(Cur, "alone", usernames))

NextFetch ==
  \/ FetchUsersCalled
  \/ \E k \in 1 .. MAX_CONCURRENT_REQUESTS, o \in Outcomes :
       FetchReturn("alone", k, o)
  \/ TimerFires("alone")

SpecFetch == InitFetch /\ [][NextFetch]_vars

\* route.ts:409-416: the call refreshUsersInBackground(usersToRefresh);
\* usersToRefresh is a part of the roster, in roster order, and not empty.
RefreshCalled(usersToRefresh) ==
  /\ run["bgAll"].pc = "idle"
  /\ usersToRefresh # << >>
  /\ Becomes(StartRun(Cur, "bgAll", usersToRefresh))

\* refreshUsersInBackground on its own, on a roster of up to MaxNames names
\* and an empty table, with a storage that never throws.
NextRefresh ==
  \/ \E part \in SUBSET Range(usernames) :
       RefreshCalled(SeqFilter(usernames, part))
  \/ \E k \in 1 .. MAX_CONCURRENT_REQUESTS, o \in Outcomes :
       FetchReturn("bgAll", k, o)
  \/ TimerFires("bgAll")
  \/ \E w \in writes : SaveReturn(w, "saved", TRUE)
  \/ BackgroundLogged("bgAll", TRUE)

SpecRefresh == InitFetch /\ [][NextRefresh]_vars

\* The state of a function that is followed on its own, outside a request,
\* before it is called with argument x.
InitCall(x) ==
  /\ AtStart(FirstNames(1), 0)
  /\ DOMAIN db = { }
  /\ input = x
  /\ output = << >>

\* The UserData records with counts and streaks of 0 .. MaxCount, with and
\* without a streak.
UserRecords ==
  [ totalSolved : 0 .. MaxCount,
    problemsByDifficulty :
      [ easy : 0 .. MaxCount, medium : 0 .. MaxCount, hard : 0 .. MaxCount ],
    streak : { NoStreak } \cup
             { Streak(c, m) : c \in 0 .. MaxCount, m \in 0 .. MaxCount } ]

\* route.ts:151-185: saveUserData(input) writes the row.
PutRecord ==
  /\ output = << >>
  /\ Becomes([ Cur EXCEPT !.output = [ stored |-> SavedColumns(input) ] ])

\* route.ts:92-111: loadCachedUsers reads the row back, no other write to
\* the key having been made.
GetRecord ==
  /\ DOMAIN output = { "stored" }
  /\ Becomes([ Cur EXCEPT
                 !.output = [ stored |-> output.stored,
                              loaded |-> LoadedUserData(output.stored) ] ])

InitRoundTrip == \E x \in UserRecords : InitCall(x)

NextRoundTrip == PutRecord \/ GetRecord

SpecRoundTrip == InitRoundTrip /\ [][NextRoundTrip]_vars

\* The submitStats of a matched user: counts of 0 .. MaxCount for some of
\* the difficulties.
SubmitStats ==
  UNION { [ given -> 0 .. MaxCount ] : given \in SUBSET Difficulties }

\* route.ts:284-400: processUserData builds the record of the user whose
\* submitStats is input.
RecordProduced ==
  /\ output = << >>
  /\ Becomes([ Cur EXCEPT !.output = [ produced |-> ProcessedCounts(input) ] ])

\* route.ts:151-185: saveUserData writes the record to the table.
RecordStored ==
  /\ DOMAIN output = { "produced" }
  /\ Becomes([ Cur EXCEPT
                 !.output = [ produced |-> output.produced,
                              stored |-> SavedColumns(output.produced) ] ])

\* route.ts:92-111 and 464-470: a later request reads the row and returns
\* it in its response.
RecordReturned ==
  /\ DOMAIN output = { "produced", "stored" }
  /\ Becomes([ Cur EXCEPT
                 !.output = [ produced |-> output.produced,
                              stored |-> output.stored,
                              returned |-> LoadedUserData(output.stored) ] ])

\* The life of one record, from the profile to the response.
InitRecord == \E x \in SubmitStats : InitCall(x)

NextRecord == RecordProduced \/ RecordStored \/ RecordReturned

SpecRecord == InitRecord /\ [][NextRecord]_vars

\* Ages around the instant of writing and around each expiry.
Ages ==
  { around + d : around \in { 0, SNAPSHOT_EXPIRY_MS, CACHE_EXPIRY_MS },
                 d \in (0 - MaxTicks) .. MaxTicks } \ { 0 - d : d \in 1 .. MaxTicks }

\* route.ts:88-90: loadCachedUsers tests the row whose lastFetch is
\* input.lastFetch at the instant input.now.
RowTested ==
  /\ "row" \notin DOMAIN output
  /\ Becomes([ Cur EXCEPT
                 !.output = [ k \in DOMAIN output \cup { "row" } |->
                              IF k = "row" THEN isCacheFresh(input, input.now)
                              ELSE output[k] ] ])

\* part_002:130-136: loadCache tests the snapshot written at input.lastFetch
\* at the instant input.now.
SnapshotTested ==
  /\ "snapshot" \notin DOMAIN output
  /\ Becomes([ Cur EXCEPT
                 !.output = [ k \in DOMAIN output \cup { "snapshot" } |->
                              IF k = "snapshot"
                              THEN loadCacheHit(input.lastFetch, input.now)
                              ELSE output[k] ] ])

\* The freshness tests, for an entry of any of the ages at any of the
\* instants RequestTime .. RequestTime + MaxTicks.
InitFresh ==
  \E age \in Ages, tick \in 0 .. MaxTicks :
    InitCall([ lastFetch |-> RequestTime + tick - age,
               now |-> RequestTime + tick ])

NextFresh == RowTested \/ SnapshotTested

SpecFresh == InitFresh /\ [][NextFresh]_vars

\* part_002:107
MAX_RETRIES == 2

\* What one attempt of the retrying fetchLeetCodeUser (part_002:192-287)
\* meets: fetch or response.text() rejects (network error, timeout), or a
\* response arrives with a status and a body. The body is not JSON
\* ("unparsable"), the JSON null, an object with errors, an object without
\* errors and without data.matchedUser ("noUser"), or an object with
\* data.matchedUser ("user").
Statuses == { 200, 400, 429, 500 }

Bodies == { "unparsable", "null", "errors", "noUser", "user" }

Rejection == [ threw |-> TRUE, status |-> 0, body |-> "none" ]

Replies ==
  { Rejection }
    \cup [ threw : { FALSE }, status : Statuses, body : Bodies ]

\* response.ok
Ok(reply) == reply.status >= 200 /\ reply.status <= 299

NoResult == [ returned |-> FALSE, isError |-> FALSE, status |-> 0 ]

ErrorResult(status) == [ returned |-> TRUE, isError |-> TRUE, status |-> status ]

DataResult == [ returned |-> TRUE, isError |-> FALSE, status |-> 0 ]

\* part_002:195-266, the try block: TRUE iff the attempt throws. fetch or
\* response.text() rejects, JSON.parse throws (215-223), or data is null
\* where data.errors is read (246).
Throws(reply) ==
  \/ reply.threw
  \/ reply.body = "unparsable"
  \/ Ok(reply) /\ reply.body = "null"

\* part_002:225-266: what the try block returns when it does not throw.
Returns(reply) ==
  IF ~Ok(reply) THEN ErrorResult(reply.status)
  ELSE IF reply.body = "errors" THEN ErrorResult(200)
  ELSE IF reply.body = "noUser" THEN ErrorResult(404)
  ELSE DataResult

\* part_002:194-279: one iteration of while (retries <= MAX_RETRIES). The
\* catch block counts the retry and returns status 500 once retries >
\* MAX_RETRIES, so the loop is never left by its condition and the return
\* of 282-286 is not reached.
Attempted(call, reply) ==
  IF Throws(reply)
  THEN [ retries |-> call.retries + 1,
         replies |-> Append(call.replies, reply),
         result |-> IF call.retries + 1 > MAX_RETRIES
                    THEN ErrorResult(500) ELSE NoResult ]
  ELSE [ retries |-> call.retries,
         replies |-> Append(call.replies, reply),
         result |-> Returns(reply) ]

\* An attempt of the call meets reply.
Attempt(reply) ==
  /\ ~output.result.returned
  /\ output.retries <= MAX_RETRIES
  /\ Becomes([ Cur EXCEPT !.output = Attempted(output, reply) ])

\* fetchLeetCodeUser(username) of part_002 is called: retries = 0.
InitRetry ==
  /\ AtStart(FirstNames(1), 0)
  /\ DOMAIN db = { }
  /\ input = usernames[1]
  /\ output = [ retries |-> 0, replies |-> << >>, result |-> NoResult ]

NextRetry == \E reply \in Replies : Attempt(reply)

SpecRetry == InitRetry /\ [][NextRetry]_vars

\* Submission timestamps, in seconds: every six hours from CalendarStart.
SlotSeconds == 6 * 60 * 60

CalendarStart == 1000 * DAY

SlotTime(k) == CalendarStart + k * SlotSeconds

\* route.ts:309-385: processUserData computes the streak of the calendar
\* input.dates at the instant input.now.
StreakCalculated ==
  /\ output = << >>
  /\ Becomes([ Cur EXCEPT !.output = StreakOf(input.dates, input.now) ])

\* The calendars with timestamps among those of the slots 0 .. MaxSlots,
\* read at the last slot or half a day before it.
InitStreak ==
  \E slots \in SUBSET (0 .. MaxSlots), at \in { MaxSlots - 2, MaxSlots } :
    InitCall([ dates |-> { SlotTime(k) : k \in slots },
               now |-> SlotTime(at) ])

NextStreak == StreakCalculated

SpecStreak == InitStreak /\ [][NextStreak]_vars

\* route.ts:284-385: processUserData extracts the timestamps of
\* input.calendar and computes their streak at the instant input.now.
CalendarProcessed ==
  /\ output = << >>
  /\ Becomes([ Cur EXCEPT
                 !.output = StreakOf(acceptedSubmissions(input.calendar),
                                     input.now) ])

\* The calendars of at most two timestamps among those of the slots
\* 0 .. MaxSparseSlots, the missing and the invalid calendar, read at the
\* last slot or half a day before it.
SparseCalendars ==
  { AbsentCalendar, InvalidCalendar }
    \cup { ObjectCalendar({ SlotTime(j), SlotTime(k) }) :
             j \in 0 .. MaxSparseSlots, k \in 0 .. MaxSparseSlots }
    \cup { ObjectCalendar({ }) }

InitCalendar ==
  \E calendar \in SparseCalendars,
     at \in { MaxSparseSlots - 2, MaxSparseSlots } :
    InitCall([ calendar |-> calendar, now |-> SlotTime(at) ])

NextCalendar == CalendarProcessed

SpecCalendar == InitCalendar /\ [][NextCalendar]_vars

\* A millisecond passes.
Tick ==
  /\ clock < MaxTicks
  /\ Becomes([ Cur EXCEPT !.clock = @ + 1 ])

\* route.ts:148-185: saveUserData is called by owner (the quick-fetch path or
\* a background refresh, of this request or of one that overlaps it) with
\* newly fetched data of username u; the upsert is on its way.
SaveUserDataCalled(owner, u) ==
  /\ fetchCount[u] <= MaxTicks
  /\ Becomes([ Cur EXCEPT
                 !.fetchCount[u] = @ + 1,
                 !.writes = @ \cup
                    { SaveCall(owner, UserData(u, fetchCount[u] + 1)) } ])

\* saveUserData on its own: calls for one key, made as time passes and
\* committed in any order, on any table and with a storage that never throws.
InitSave == InitWith(FirstNames(1), 0)

NextSave ==
  \/ Tick
  \/ \E owner \in { "quick", "bgAll" }, u \in Range(usernames) :
       SaveUserDataCalled(owner, u)
  \/ \E w \in writes : SaveReturn(w, "saved", TRUE)

SpecSave == InitSave /\ [][NextSave]_vars

(***************************************************************************)
(* Vocabulary of the properties                                            *)
(***************************************************************************)

Ids(users) == { users[k].id : k \in DOMAIN users }

\* The entry of u in table is younger than the TTL at the time of the request.
FreshIn(table, u) ==
  u \in DOMAIN table /\ RequestTime - table[u].lastFetch < CACHE_EXPIRY_MS

\* The cached record of u, as a response carries it.
RecordIn(table, u) == UserData(table[u].id, table[u].rev)

\* GET has responded.
Responded == response.kind # "none"

\* The handler and everything it started have come to their end.
Quiet ==
  /\ getPc = "done"
  /\ writes = { }
  /\ \A id \in RunIds :
       run[id].pc \in { "idle", "done", "returned", "rejected" }

\* The cycle is over and not one upstream fetch returned a user. The table
\* is then what it was when the request arrived.
TotalFailure == Quiet /\ seen # { } /\ "ok" \notin seen

\* findMany of loadCachedUsers returned: in SpecLoad the one storage call that
\* may throw did not.
CacheRead == getPc \notin { "idle", "loading" } /\ faultsLeft = 1

(***************************************************************************)
(* C1 .. C10                                                               *)
(***************************************************************************)

\* C1: when loadCachedUsers has read the cache, whatever it holds, the list
\* to refresh is exactly the roster usernames without a fresh entry (missing
\* or stale), in roster order, the cached response announces that list as
\* `refreshing`, and `users` contains the cached record of every roster
\* username whose entry is fresh.
C1_CheckCacheSplitsRoster ==
  CacheRead =>
    LET notFresh == { u \in Range(usernames) : ~FreshIn(db, u) } IN
    /\ loaded.usersToRefresh = SeqFilter(usernames, notFresh)
    /\ response.kind = "cached" => response.refreshing = loaded.usersToRefresh
    /\ \A u \in Range(usernames) \ notFresh :
         /\ response.kind = "cached"
         /\ RecordIn(db, u) \in Range(response.users)

\* Three fresh entries and two missing ones: the response has the three
\* records and announces the two missing names.
C1_Witness ==
  /\ CacheRead
  /\ Len(usernames) = 5
  /\ Cardinality({ u \in Range(usernames) : FreshIn(db, u) }) = 3
  /\ DOMAIN db = { u \in Range(usernames) : FreshIn(db, u) }
  /\ response.kind = "cached"
  /\ Len(response.users) = 3
  /\ Len(response.refreshing) = 2
  /\ Range(response.refreshing) = Range(usernames) \ DOMAIN db

\* C2 as stated: in a response served from the cache every record of `users`
\* belongs to a username whose entry is fresh, and no username is both in
\* `users` and in `refreshing`.
C2_Original ==
  response.kind = "cached" =>
    /\ \A u \in Ids(response.users) : FreshIn(db, u)
    /\ Ids(response.users) \cap Range(response.refreshing) = { }

\* C2, amended: in a response served from the cache every record of `users`
\* is the cached record of a roster username that has an entry, fresh or
\* stale; `refreshing` holds no username whose entry is fresh; and a username
\* is both in `users` and in `refreshing` exactly when its entry is stale.
C2_StaleServedAndRefreshed ==
  response.kind = "cached" =>
    /\ \A c \in Range(response.users) :
         /\ c.id \in Range(usernames) \cap DOMAIN db
         /\ c = RecordIn(db, c.id)
    /\ \A u \in Range(usernames) :
         /\ FreshIn(db, u) => u \notin Range(response.refreshing)
         /\ (u \in Ids(response.users) /\ u \in Range(response.refreshing))
              <=> (u \in DOMAIN db /\ ~FreshIn(db, u))

\* A cached response with a fresh record and a stale one, the stale one also
\* announced as refreshing.
C2_Witness ==
  /\ response.kind = "cached"
  /\ \E u \in Ids(response.users) : FreshIn(db, u)
  /\ \E u \in Ids(response.users) :
       ~FreshIn(db, u) /\ u \in Range(response.refreshing)

\* C3 as stated: when no roster username has a fresh entry, every upstream
\* fetch of the cycle fails and the table is not empty, GET responds with
\* status 200, fromCache = true and users taken from the table.
C3_Original ==
  ( /\ TotalFailure
    /\ Responded
    /\ DOMAIN db # { }
    /\ \A u \in Range(usernames) : ~FreshIn(db, u) )
  => /\ response.status = 200
     /\ response.fromCache
     /\ response.users # << >>
     /\ \A c \in Range(response.users) :
          c.id \in DOMAIN db /\ c = RecordIn(db, c.id)

\* C4 as stated: when the table is empty and every upstream fetch of the
\* cycle fails, none of them rate-limited, GET responds with status 500 and
\* never with a 200 that carries an empty `users`.
C4_Original ==
  ( /\ TotalFailure
    /\ Responded
    /\ DOMAIN db = { }
    /\ "rateLimited" \notin seen )
  => /\ response.status = 500
     /\ ~(response.status = 200 /\ response.users = << >>)

\* C5 as stated: when the cycle obtains no data (empty table, no fetch that
\* succeeds), GET responds with 429 and rateLimited = true if the fetches
\* were rate-limited, and with 500, not 429, if none of them was.
C5_Original ==
  ( /\ TotalFailure
    /\ Responded
    /\ DOMAIN db = { } )
  => /\ seen = { "rateLimited" } =>
          response.status = 429 /\ response.rateLimited
     /\ "rateLimited" \notin seen => response.status = 500

\* C6 as stated: once a fetch of a run was answered 429, no later batch of
\* the run is started, that is, no further upstream fetch is issued. (The
\* other half, a result that carries rateLimited = true, has nothing to stand
\* on: fetchUsersInParallel returns the list of profiles and nothing else.)
C6_Original ==
  [][ "rateLimited" \in seen => fetchCount' = fetchCount ]_vars

\* C7 as stated: the errors of a response built from fetch results are one
\* record for each username whose fetch failed in this cycle and none for a
\* username whose fetch succeeded or that was not fetched. The usernames the
\* quick fetch asked for are the first QUICK_FETCH_COUNT of the list to
\* refresh, and those that succeeded are the ids of `users`.
C7_Original ==
  response.kind = "quick" =>
    LET attempted ==
          Range(Slice(loaded.usersToRefresh, 0, QUICK_FETCH_COUNT))
        failed == attempted \ Ids(response.users)
    IN /\ Range(response.errors) = failed
       /\ Len(response.errors) = Cardinality(failed)

\* C8 as stated: by the time all the work of a GET cycle has finished, the
\* cycle has appended exactly one row to fetchLog.
C8_Original ==
  Quiet => fetchLog[TRUE] + fetchLog[FALSE] = 1

\* C9: in every run of fetchUsersInParallel, whatever the list of usernames,
\* the upstream fetches in flight at the same time are never more than
\* MAX_CONCURRENT_REQUESTS.
C9_BatchWidth ==
  \A id \in RunIds : InFlight(run[id]) <= MAX_CONCURRENT_REQUESTS

\* A list longer than one batch, with the whole first batch in flight.
C9_Witness ==
  /\ Len(run["alone"].names) > MAX_CONCURRENT_REQUESTS
  /\ run["alone"].i = 0
  /\ InFlight(run["alone"]) = MAX_CONCURRENT_REQUESTS

\* C10: when loadCachedUsers yields at least one record, GET responds in the
\* very step in which loadCachedUsers returns, with status 200 and those
\* records, while every fetch of the background refresh it has just launched
\* is still in flight; no step of the refresh is needed for the response.
C10_RespondsWithoutWaiting ==
  [][ ( /\ getPc = "loading"
        /\ getPc' # "loading"
        /\ loaded'.cachedUsers # << >> )
      => /\ getPc' = "done"
         /\ response'.status = 200
         /\ response'.users = loaded'.cachedUsers
         /\ loaded'.usersToRefresh # << >> =>
              /\ run'["bgAll"].pc = "fetching"
              /\ InFlight(run'["bgAll"]) = Len(loaded'.usersToRefresh) ]_vars

\* The response has been given and no fetch of the refresh has returned.
C10_Witness ==
  /\ response.kind = "cached"
  /\ run["bgAll"].pc = "fetching"
  /\ InFlight(run["bgAll"]) = Len(run["bgAll"].names)
  /\ seen = { }

\* The usernames for which run r has issued its fetch.
Issued(r) == Range(Slice(r.names, 0, r.i + MAX_CONCURRENT_REQUESTS))

\* Run r is still inside fetchUsersInParallel.
Fetching(r) == r.pc \in { "fetching", "delay" }

\* C11: whatever fetches of a refresh run fail, the run goes on: when it
\* leaves fetchUsersInParallel the fetch of every username of the run has
\* been issued, and every fetch of the run that returned a user is, from then
\* on, either in a saveUserData call that has not ended or in the table.
C11_FailureDoesNotAbortRun ==
  \A id \in BackgroundRuns :
    run[id].pc # "idle" =>
      /\ \A u \in Issued(run[id]) : fetchCount[u] >= 1
      /\ ~Fetching(run[id]) => Issued(run[id]) = Range(run[id].names)
      /\ \A h \in succeeded :
           (h.run = id /\ ~Fetching(run[id])) =>
             \/ SaveCall(id, UserData(h.username, h.rev)) \in writes
             \/ /\ h.username \in DOMAIN db
                /\ db[h.username] = Row(h.username, h.rev, RequestTime)

\* A run of two batches is over: a fetch of the first batch failed, and the
\* users of the first and of the second batch that were fetched are stored.
C11_Witness ==
  /\ run["bgAll"].pc = "done"
  /\ Len(run["bgAll"].names) > MAX_CONCURRENT_REQUESTS
  /\ run["bgAll"].names[1] \notin DOMAIN db
  /\ seen \cap { "error", "rateLimited" } # { }
  /\ run["bgAll"].names[2] \in DOMAIN db
  /\ run["bgAll"].names[MAX_CONCURRENT_REQUESTS + 1] \in DOMAIN db

\* C12 as stated: a storage error is never fatal. When the cache read fails,
\* every roster username is a cache miss and the cycle goes on; and whatever
\* storage reads, writes and audit writes fail, the response is one that GET
\* itself returned, with status 200, 429 or 500, and not the outcome of GET
\* throwing.
C12_Original ==
  /\ (getPc \notin { "idle", "loading" } /\ loaded.cachedUsers = << >>) =>
       loaded.usersToRefresh = usernames
  /\ Responded =>
       /\ response.kind # "unhandled"
       /\ response.status \in { 200, 429, 500 }

\* C13 as stated: for every key, whatever the order in which the
\* saveUserData calls are made and committed, the stored lastFetch never
\* decreases from one committed write to the next.
C13_Original ==
  [][ \A u \in DOMAIN db :
        u \in DOMAIN db' /\ db'[u].lastFetch >= db[u].lastFetch ]_vars

\* C14: a record, with the streak every record that processUserData builds
\* has, that was written by saveUserData and read back by loadCachedUsers
\* comes back with the same totalSolved, the same problemsByDifficulty
\* { easy, medium, hard } and the same streak { current, max }.
C14_RoundTrip ==
  ("loaded" \in DOMAIN output /\ input.streak.has) =>
    /\ output.loaded.totalSolved = input.totalSolved
    /\ output.loaded.problemsByDifficulty = input.problemsByDifficulty
    /\ output.loaded.streak = input.streak

\* A record with three different counts and two different streak values has
\* made the round trip.
C14_Witness ==
  /\ "loaded" \in DOMAIN output
  /\ input.streak = Streak(1, 2)
  /\ input.problemsByDifficulty = [ easy |-> 2, medium |-> 1, hard |-> 0 ]
  /\ input.totalSolved = 2
  /\ output.loaded.streak = Streak(1, 2)

\* totalSolved = easy + medium + hard in a UserData.
SumsUp(userData) ==
  userData.totalSolved =
    userData.problemsByDifficulty.easy + userData.problemsByDifficulty.medium
      + userData.problemsByDifficulty.hard

\* C15: the record processUserData builds from a profile, the row
\* saveUserData stores for it and the record a response returns from that
\* row all have totalSolved = easy + medium + hard.
C15_TotalIsSum ==
  /\ "produced" \in DOMAIN output => SumsUp(output.produced)
  /\ "stored" \in DOMAIN output =>
       output.stored.totalSolved =
         output.stored.easyCount + output.stored.mediumCount
           + output.stored.hardCount
  /\ "returned" \in DOMAIN output => SumsUp(output.returned)

\* A record with the three counts 2, 1 and 0, whose profile gives another
\* number under "All", was produced, stored and returned with totalSolved 3.
C15_Witness ==
  /\ "returned" \in DOMAIN output
  /\ DOMAIN input = Difficulties
  /\ input["All"] = 2
  /\ output.returned.problemsByDifficulty =
       [ easy |-> 2, medium |-> 1, hard |-> 0 ]
  /\ output.returned.totalSolved = 3

\* How old the tested entry is at the instant of the test.
AgeTested == input.now - input.lastFetch

\* C16: each freshness test answers AgeTested < TTL for its TTL, whatever
\* the instant: an entry written at the instant of the test is fresh, an
\* entry aged TTL + 1 is stale and an entry aged exactly TTL is stale.
C16_FreshIffYoungerThanTTL ==
  /\ "row" \in DOMAIN output =>
       /\ output.row = (AgeTested < CACHE_EXPIRY_MS)
       /\ AgeTested = 0 => output.row
       /\ AgeTested \in { CACHE_EXPIRY_MS, CACHE_EXPIRY_MS + 1 } => ~output.row
  /\ "snapshot" \in DOMAIN output =>
       /\ output.snapshot = (AgeTested < SNAPSHOT_EXPIRY_MS)
       /\ AgeTested = 0 => output.snapshot
       /\ AgeTested \in { SNAPSHOT_EXPIRY_MS, SNAPSHOT_EXPIRY_MS + 1 } =>
            ~output.snapshot

\* A row aged exactly CACHE_EXPIRY_MS was tested a millisecond after
\* RequestTime and found stale, the snapshot test agreeing.
C16_Witness ==
  /\ DOMAIN output = { "row", "snapshot" }
  /\ input.now = RequestTime + 1
  /\ AgeTested = CACHE_EXPIRY_MS
  /\ output.row = FALSE
  /\ output.snapshot = FALSE

\* The failure classes of a reply: Transient is a network error, a timeout
\* or a 5xx response; Malformed is a body that does not parse; RateLimited
\* is a 429 response; NotFound is a parsed answer without matchedUser.
Transient(reply) == reply.threw \/ reply.status >= 500

Malformed(reply) == ~reply.threw /\ reply.body = "unparsable"

RateLimited(reply) == ~reply.threw /\ reply.status = 429

NotFound(reply) == ~reply.threw /\ Ok(reply) /\ reply.body = "noUser"

\* C17: a Transient or Malformed reply is retried unless MAX_RETRIES
\* retries were used before it; no call makes more than MAX_RETRIES + 1
\* attempts.
C17_Original ==
  /\ Len(output.replies) <= MAX_RETRIES + 1
  /\ \A i \in 1 .. Len(output.replies) :
       (Transient(output.replies[i]) \/ Malformed(output.replies[i]))
         /\ i <= MAX_RETRIES
         => ~output.result.returned \/ i < Len(output.replies)

\* C18: whatever its body, a RateLimited or NotFound reply is the last one
\* of the call, which returns status 429 or 404 respectively.
C18_Original ==
  \A i \in 1 .. Len(output.replies) :
    /\ RateLimited(output.replies[i]) =>
         /\ i = Len(output.replies)
         /\ output.result = ErrorResult(429)
    /\ NotFound(output.replies[i]) =>
         /\ i = Len(output.replies)
         /\ output.result = ErrorResult(404)

\* C19: the streak computed for a non-empty set of timestamps, at any
\* instant, has max >= current and max >= 1.
C19_MaxBoundsCurrent ==
  output # << >> /\ input.dates # { } =>
    /\ output.max >= output.current
    /\ output.max >= 1

\* Three timestamps, the last more than 48 hours after the second: the
\* streak was computed with max above current.
C19_Witness ==
  /\ output # << >>
  /\ Cardinality(input.dates) = 3
  /\ output.current >= 1
  /\ output.max > output.current

\* C20: the streak computed for a single timestamp that lies within the
\* 24 hours before now is {current: 1, max: 1}.
C20_Original ==
  /\ output # << >>
  /\ Cardinality(input.dates) = 1
  /\ \A date \in input.dates : date >= input.now - DAY /\ date <= input.now
  => output = Streak(1, 1)

\* The day a timestamp falls in.
DayBucket(date) == date \div DAY

DayBuckets(dates) == { DayBucket(date) : date \in dates }

\* A timestamp lies in the most recent 24-hour window.
Today(date, now) == date >= now - DAY /\ date <= now

\* C21: the streak computed when no timestamp lies within the 24 hours
\* before now has current = 0, and is {current: 0, max: 1} when there is a
\* single timestamp.
C21_Original ==
  /\ output # << >>
  /\ input.dates # { }
  /\ \A date \in input.dates : ~Today(date, input.now)
  => /\ output.current = 0
     /\ Cardinality(input.dates) = 1 => output = Streak(0, 1)

\* C22: the streak computed for timestamps that fall in exactly three
\* consecutive days, the last of them within the 24 hours before now, has
\* current = max = 3.
C22_Original ==
  /\ output # << >>
  /\ \E day \in DayBuckets(input.dates) :
       DayBuckets(input.dates) = { day, day + 1, day + 2 }
  /\ \E date \in input.dates :
       /\ Today(date, input.now)
       /\ \A other \in input.dates : DayBucket(other) <= DayBucket(date)
  => /\ output.current = 3
     /\ output.max = 3

\* C23: the streak computed for timestamps in two days that are five days
\* apart, none within the 24 hours before now, has max = 1 and current = 0.
C23_Original ==
  /\ output # << >>
  /\ \E day \in DayBuckets(input.calendar.keys) :
       DayBuckets(input.calendar.keys) = { day, day + 5 }
  /\ \A date \in input.calendar.keys : ~Today(date, input.now)
  => /\ output.max = 1
     /\ output.current = 0

\* C24: the streak computed for a user without submission calendar, or
\* with a calendar without keys, is {current: 0, max: 0}.
C24_EmptyGivesZero ==
  /\ output # << >>
  /\ input.calendar \in { AbsentCalendar, ObjectCalendar({ }) }
  => output = Streak(0, 0)

\* The streak of a calendar that parses to an object without keys was
\* computed.
C24_Witness ==
  /\ input.calendar = ObjectCalendar({ })
  /\ output = Streak(0, 0)

\* The usersToRefresh a request found, without the usernames of its quick
\* fetch (route.ts:483).
Remainder ==
  Slice(loaded.usersToRefresh, QUICK_FETCH_COUNT, Len(loaded.usersToRefresh))

\* C25: when GET had no cached record, its response comes after the quick
\* fetch has returned and every user it fetched is stored; `refreshing` is
\* the list to refresh without the usernames of the quick fetch; and the
\* background refreshes the request launched were given exactly that list.
C25_Original ==
  response.kind = "quick" =>
    /\ run["quick"].pc = "done"
    /\ SavesPending(Cur, "quick") = { }
    /\ \A h \in succeeded : h.run = "quick" => h.username \in DOMAIN db
    /\ response.refreshing = Remainder
    /\ \A id \in BackgroundRuns :
         run[id].pc # "idle" => run[id].names = Remainder

\* C26: in the cycle of one request no roster username is fetched from the
\* upstream more than once, the quick fetch and the background refreshes
\* counted together.
C26_Original == \A u \in Range(usernames) : fetchCount[u] <= 1

\* C27: the upstream fetches in flight for one request, those of its quick
\* fetch and of its background refreshes counted together, are never more
\* than MAX_CONCURRENT_REQUESTS.
C27_Original ==
  InFlight(run["quick"]) + InFlight(run["bgAll"]) + InFlight(run["bgRest"])
    <= MAX_CONCURRENT_REQUESTS

\* C28: in a run of fetchUsersInParallel a batch is left only by the answer
\* to its last fetch in flight; the fetches of the next batch are issued
\* only from the delay, MAX_CONCURRENT_REQUESTS names further on and with
\* nothing in flight; and the delay is entered only when usernames are left,
\* so that the run returns from its last batch without delay.
C28_BatchesAreSequential ==
  [][ \A id \in RunIds :
        /\ (run[id].pc = "fetching" /\ run'[id].pc # "fetching") =>
             InFlight(run[id]) = 1
        /\ (run'[id].pc = "fetching" /\ run'[id].i # run[id].i) =>
             /\ run[id].pc = "delay"
             /\ InFlight(run[id]) = 0
             /\ run'[id].i = run[id].i + MAX_CONCURRENT_REQUESTS
        /\ run'[id].pc = "delay" =>
             run'[id].i + MAX_CONCURRENT_REQUESTS < Len(run'[id].names)
        /\ (run[id].pc = "fetching" /\ run'[id].pc = "returned") =>
             run[id].i + MAX_CONCURRENT_REQUESTS >= Len(run[id].names)
    ]_vars

\* A run of two batches has returned from its second batch, with a result
\* for every username of the first.
C28_Witness ==
  /\ run["alone"].pc = "returned"
  /\ run["alone"].i = MAX_CONCURRENT_REQUESTS
  /\ Len(run["alone"].results) > MAX_CONCURRENT_REQUESTS

\* A fetch of username u that returned a user, its number among the fetches
\* of u being rev.
FetchedFor(u, rev) ==
  \E h \in succeeded : h.username = u /\ h.rev = rev

\* C29: whatever part of the roster a refresh is given, in whatever order
\* its fetches are answered and whichever of them fail, every record handed
\* to saveUserData and every row of the table is the result of a fetch that
\* returned a user for the very username it is stored under.
C29_StoredUnderOwnUsername ==
  /\ \A w \in writes : FetchedFor(w.row.id, w.row.rev)
  /\ \A u \in DOMAIN db : db[u].id = u /\ FetchedFor(u, db[u].rev)

\* The fetch of the first username of a refresh, which is not the first of
\* the roster, returned no user, and the second user is stored under its own
\* name, first in the result list though it was.
C29_Witness ==
  /\ run["bgAll"].pc = "done"
  /\ Len(run["bgAll"].names) >= 2
  /\ run["bgAll"].names[1] # usernames[1]
  /\ ~FetchedFor(run["bgAll"].names[1], 1)
  /\ run["bgAll"].names[2] \in DOMAIN db
  /\ FetchedFor(run["bgAll"].names[2], 1)

\* An upstream fetch of u has returned a user.
FetchedUser(u) == \E h \in succeeded : h.username = u

\* The last instant at which a row written now is within its TTL.
WithinTTL == Now + CACHE_EXPIRY_MS - 1

\* loadCachedUsers, called at that instant on the table as it is, finds a
\* row for u and does not list u for refresh.
ServedFresh(u) ==
  /\ u \in DOMAIN db
  /\ u \notin Range(loadCachedUsers(usernames, db, WithinTTL, TRUE).usersToRefresh)

\* C30: when a request has found roster username u stale or missing, then
\* with a storage that works, in the end, the table holds a row for u that
\* a following loadCachedUsers within the TTL finds fresh, so that u is no
\* longer listed for refresh, unless the cycle has ended without any
\* upstream fetch of u returning a user.
C30_RevalidationCompletes ==
  \A u \in Range(FirstNames(LiveRosterSize)) :
    (u \in Range(loaded.usersToRefresh))
      ~> (ServedFresh(u) \/ (Quiet /\ ~FetchedUser(u)))

\* The row of the first roster username was stale when the request arrived
\* and was served as it was; the cycle is over, and the row now in the table
\* comes from a fetch of this cycle and is fresh.
C30_Witness ==
  /\ Quiet
  /\ response.kind = "cached"
  /\ usernames[1] \in Range(loaded.usersToRefresh)
  /\ usernames[1] \in Ids(response.users)
  /\ ServedFresh(usernames[1])
  /\ db[usernames[1]].rev >= 1

\* C31: whatever fails inside a background refresh, the refresh catches it
\* and writes a fetchLog row with success = false; the promise of the
\* refresh, which nobody awaits, is never rejected.
C31_Original ==
  \A id \in BackgroundRuns :
    /\ run[id].pc # "rejected"
    /\ (run[id].pc = "done" /\ fetchLog[TRUE] = 0) => fetchLog[FALSE] >= 1

\* C32: no step of a request, of its refreshes or of a failing storage call
\* removes a row: a key that has a row in the table has one ever after.
C32_EntriesAreNeverDeleted ==
  [][ DOMAIN db \subseteq DOMAIN db' ]_vars

\* The cycle is over: a user was fetched for a key that had a row, a
\* saveUserData call failed and wrote its fetchLog row, and the row that
\* was there when the request arrived is still in the table.
C32_Witness ==
  /\ Quiet
  /\ "ok" \in seen
  /\ fetchLog[FALSE] >= 1
  /\ usernames[1] \in DOMAIN db
  /\ db[usernames[1]].rev = 0

\* C33: the table changes only in the step in which a saveUserData call
\* commits, and then only in the row of the username whose fetch returned
\* the user that is saved: a fetch that fails changes neither the row of
\* its username nor any other.
C33_OnlySuccessfulFetchWrites ==
  [][ db' # db =>
        \E w \in writes \ writes' :
          /\ db' = Upsert(db, w.row)
          /\ FetchedFor(w.row.id, w.row.rev) ]_vars

\* The cycle is over: every fetch of the first username failed and its row
\* is the one the request found, while the second username has a new row.
C33_Witness ==
  /\ Quiet
  /\ fetchCount[usernames[1]] >= 1
  /\ ~FetchedUser(usernames[1])
  /\ usernames[1] \in DOMAIN db
  /\ db[usernames[1]] = Row(usernames[1], 0, RequestTime - CACHE_EXPIRY_MS)
  /\ usernames[2] \in DOMAIN db
  /\ db[usernames[2]].rev >= 1

\* C34: when the cycle is over, the row of a username that was fetched more
\* than once holds the data of the latest of its fetches that returned a
\* user, whatever the order in which answers and saves arrived.
C34_Original ==
  Quiet =>
    \A h \in succeeded :
      /\ h.username \in DOMAIN db
      /\ db[h.username].rev >= h.rev

\* The timestamps a calendar of SpecStreak can hold.
SlotTimes == { SlotTime(k) : k \in 0 .. MaxSlots }

\* C35: a further timestamp in a day that already has one changes neither
\* current nor max of the streak.
C35_Original ==
  output # << >> =>
    \A extra \in SlotTimes \ input.dates :
      DayBucket(extra) \in DayBuckets(input.dates) =>
        StreakOf(input.dates \cup { extra }, input.now) = output

RECURSIVE RunPass(_, _, _, _)
\* The forward pass the claim describes, over the day buckets in ascending
\* order from index i on: streak is the streak that ends at bucket i - 1, best
\* the longest streak so far.
RunPass(buckets, i, streak, best) ==
  IF i > Len(buckets) THEN IF streak > best THEN streak ELSE best
  ELSE IF i = 1 THEN RunPass(buckets, 2, 1, best)
  ELSE IF buckets[i] - buckets[i - 1] <= 2
       THEN RunPass(buckets, i + 1, streak + 1, best)
       ELSE RunPass(buckets, i + 1, 1, IF streak > best THEN streak ELSE best)

LongestRun(dates) == RunPass(sortedSubmissions(DayBuckets(dates)), 1, 0, 0)

\* C36: max of the streak is the longest run of one forward pass over the
\* distinct day buckets in ascending order, in which a bucket at most two
\* days after the previous one extends the run by 1 and a later one starts
\* a new run of 1.
C36_Original ==
  output # << >> => output.max = LongestRun(input.dates)

\* ---------------------------------------------------------------------
\* The streak computation step by step: output holds the local variables
\* of route.ts:320-373 and the position pc of the computation.

\* route.ts:314-336: the locals when the computation reaches its first
\* loop, or its end for an empty calendar (route.ts:314, 383-385).
StreakStarted(dates, now) ==
  LET zero == [ pc |-> "done", checkDate |-> 0, streakDays |-> 0,
                currentStreak |-> 0, maxStreak |-> 0, lastDate |-> 0,
                i |-> 1 ]
  IN  IF dates = { } THEN zero
      ELSE IF hasSubmissionToday(dates, now)
      THEN [ zero EXCEPT !.pc = "walk", !.currentStreak = 1,
                         !.checkDate = now - DAY - DAY ]
      ELSE [ zero EXCEPT !.pc = "history" ]

\* A walk that tests the same day again instead of moving to the day
\* before.
DayCheckedOff(st, dates) ==
  IF \E date \in dates : date >= st.checkDate /\ date < st.checkDate + DAY
  THEN st
  ELSE [ st EXCEPT !.pc = "history",
                   !.currentStreak = @ + st.streakDays,
                   !.maxStreak = IF st.currentStreak + st.streakDays > @
                                 THEN st.currentStreak + st.streakDays ELSE @ ]

\* route.ts:338-357: one iteration of while (true), and what follows the
\* break.
DayChecked(st, dates) ==
  IF \E date \in dates : date >= st.checkDate /\ date < st.checkDate + DAY
  THEN [ st EXCEPT !.streakDays = @ + 1, !.checkDate = @ - DAY ]
  ELSE [ st EXCEPT !.pc = "history",
                   !.currentStreak = @ + st.streakDays,
                   !.maxStreak = IF st.currentStreak + st.streakDays > @
                                 THEN st.currentStreak + st.streakDays ELSE @ ]

\* route.ts:361-371: one iteration of the loop over the sorted timestamps.
DateChecked(st, date) ==
  LET after == HistoricalStep([ currentStreak |-> st.currentStreak,
                                maxStreak |-> st.maxStreak,
                                lastDate |-> st.lastDate ], date)
  IN  [ st EXCEPT !.currentStreak = after.currentStreak,
                  !.maxStreak = after.maxStreak,
                  !.lastDate = after.lastDate,
                  !.i = @ + 1 ]

\* route.ts:373-378
StreakEnded(st) ==
  [ st EXCEPT !.pc = "done",
              !.maxStreak = IF st.currentStreak > @ THEN st.currentStreak ELSE @ ]

StreakStarts ==
  /\ output = << >>
  /\ Becomes([ Cur EXCEPT !.output = StreakStarted(input.dates, input.now) ])

DayStep ==
  /\ output # << >>
  /\ output.pc = "walk"
  /\ Becomes([ Cur EXCEPT !.output = DayChecked(output, input.dates) ])

\* The date of the iteration is sortedSubmissions[i - 1], the timestamp
\* with i - 1 timestamps before it.
DateStep ==
  /\ output # << >>
  /\ output.pc = "history"
  /\ \E date \in input.dates :
       /\ Cardinality({ d \in input.dates : d < date }) = output.i - 1
       /\ Becomes([ Cur EXCEPT !.output = DateChecked(output, date) ])

StreakEnds ==
  /\ output # << >>
  /\ output.pc = "history"
  /\ output.i > Cardinality(input.dates)
  /\ Becomes([ Cur EXCEPT !.output = StreakEnded(output) ])

NextWalk == StreakStarts \/ DayStep \/ DateStep \/ StreakEnds

\* The computation is synchronous code of one call: once started it runs
\* on, whatever else is scheduled.
SpecWalk == InitStreak /\ [][NextWalk]_vars /\ WF_vars(NextWalk)

\* C37: for every calendar and every current time the streak computation
\* comes to its end; the walk back over the days stops.
C37_StreakTerminates == <>(output # << >> /\ output.pc = "done")

\* A computation that has ended after the walk went back over two days
\* or more, with the streak StreakOf gives.
C37_Witness ==
  /\ output # << >>
  /\ output.pc = "done"
  /\ output.streakDays >= 2
  /\ Streak(output.currentStreak, output.maxStreak)
       = StreakOf(input.dates, input.now)

(***************************************************************************)
(* The routes of part_002 that keep one snapshot of the whole leaderboard: *)
(* the Redis-backed route (part_002:1-526) and the file-backed route       *)
(* (part_002:529-907). db is what the store holds, key by key.              *)
(***************************************************************************)

\* Bound: the snapshot routes are followed on the first SnapshotRosterSize
\* names of the roster.
SnapshotRosterSize == 2

\* Bound: the half hours that pass while the snapshot routes are followed.
MaxHalfHours == 3

\* part_002:104
LEETCODE_CACHE_KEY == "leetcode-data"

\* part_002:632
CACHE_FILE_PATH == "cache/leetcode-data.json"

\* null and undefined of JavaScript.
Null == [ null |-> TRUE ]

Undefined == [ undefined |-> TRUE ]

\* JSON.stringify(value): a string, which has none of the properties of the
\* value it spells; it is modelled by the one thing that can be done with
\* it, parsing.
JSONstringify(value) == [ text |-> value ]

\* JSON.parse(string)
JSONparse(string) == string.text

\* value.name: undefined when value has no property of that name, as for
\* every name of a string.
Property(value, name) ==
  IF name \in DOMAIN value THEN value[name] ELSE Undefined

\* What && and if take for true, of the values that occur here.
Truthy(value) == value # Null /\ value # Undefined

\* part_002:151-154 and 673-676: { timestamp: Date.now(), data }
CacheContent(data, t) == [ timestamp |-> t, data |-> data ]

\* CacheData: users and errors (the ISO timestamp string is left out).
CacheData(users, errors) == [ users |-> users, errors |-> errors ]

\* The store with value under key.
Put(store, key, value) ==
  [ k \in DOMAIN store \cup { key } |-> IF k = key THEN value ELSE store[k] ]

\* part_002:117-144 (redis.get, with the client of the `redis` package that
\* returns the string as stored) and 644-666 (fs.readFile): the data of the
\* snapshot under key when it is there, can be read and is younger than one
\* hour at t; null otherwise.
loadCache(store, key, t, readOk) ==
  IF ~readOk \/ key \notin DOMAIN store THEN Null
  ELSE LET cacheData == JSONparse(store[key])
       IN  IF loadCacheHit(cacheData.timestamp, t) THEN cacheData.data
           ELSE Null

\* part_002:149-161 and 671-684: the snapshot is written as a string; an
\* error of the store is logged and swallowed.
saveCache(store, key, data, t, writeOk) ==
  IF writeOk THEN Put(store, key, JSONstringify(CacheContent(data, t)))
  ELSE store

\* A cycle that caches whatever it got.
gotResultsOff(users) == TRUE

\* part_002:509 and 902: if (users.length > 0)
gotResults(users) == Len(users) > 0

\* How the fetch of one user ends in part_002: the profile, an error result
\* of status 404 or 500, one of status 429, and a matchedUser without
\* submitStats, on which processUserData throws (part_002:319, 806).
SnapshotOutcomes == { "ok", "error", "rateLimited", "broken" }

RECURSIVE FetchedInTurn(_, _)
\* part_002:449-459: the users are fetched one after the other, from index i
\* on, and the loop breaks at the first result of status 429.
FetchedInTurn(outcomes, i) ==
  IF i > Len(outcomes) THEN << >>
  ELSE IF outcomes[i] = "rateLimited" THEN << outcomes[i] >>
  ELSE << outcomes[i] >> \o FetchedInTurn(outcomes, i + 1)

RECURSIVE SnapshotLoop(_, _, _, _)
\* part_002:296-428 and 783-853: the loop of processUserData over the roster
\* from index i on; acc.users and acc.errors are what it has pushed.
SnapshotLoop(results, roster, i, acc) ==
  IF i > Len(roster) THEN acc
  ELSE IF results[i] = "ok"
  THEN SnapshotLoop(results, roster, i + 1,
         [ acc EXCEPT !.users = Append(@, UserData(roster[i], 0)) ])
  ELSE SnapshotLoop(results, roster, i + 1,
         [ acc EXCEPT !.errors = Append(@, roster[i]) ])

\* processUserData of part_002 on results none of which is rate limited or
\* broken.
processSnapshot(results, roster) ==
  SnapshotLoop(results, roster, 1, CacheData(<< >>, << >>))

\* A response of a snapshot route: kind is the route that gives it.
SnapshotResponse(route, status, data, fromCache, rateLimited) ==
  [ Response(route, status, data.users, data.errors, << >>, fromCache)
      EXCEPT !.rateLimited = rateLimited ]

\* part_002:439-446 and 863-870: GET of route reads the snapshot under key
\* and answers with it, or goes on to fetch.
SnapshotRequested(S, route, key, readOk) ==
  LET cachedData == loadCache(S.db, key, RequestTime + S.clock, readOk)
  IN  IF Truthy(cachedData)
      THEN [ S EXCEPT !.response =
               SnapshotResponse(route, 200, cachedData, TRUE, FALSE) ]
      ELSE [ S EXCEPT !.getPc = route ]

\* part_002:487-495 and 880-888
RateLimitedResponse(route) ==
  SnapshotResponse(route, 429, CacheData(<< >>, << "ALL" >>), FALSE, TRUE)

\* part_002:514-525; in the file-backed route the exception leaves GET and
\* the framework answers 500.
ErrorResponse(route) ==
  SnapshotResponse(route, 500, CacheData(<< >>, << "ALL" >>), FALSE, FALSE)

\* part_002:498-513 and 891-906: the results are processed, cached when
\* there is a user among them, and returned.
SnapshotProcessed(S, route, key, results, writeOk) ==
  IF \E i \in DOMAIN results : results[i] = "broken"
  THEN [ S EXCEPT !.getPc = "idle",
                  !.processed = CacheData(<< >>, << >>),
                  !.response = ErrorResponse(route) ]
  ELSE LET responseData == processSnapshot(results, S.usernames)
       IN  [ S EXCEPT
               !.getPc = "idle",
               !.processed = responseData,
               !.db = IF gotResults(responseData.users)
                      THEN saveCache(@, key, responseData,
                                     RequestTime + S.clock, writeOk)
                      ELSE @,
               !.response =
                 SnapshotResponse(route, 200, responseData, FALSE, FALSE) ]

\* part_002:462-496: the rate-limited cycle of the Redis-backed route.
\* oldCache is what redis.get returns, the string saveCache stored, not
\* parsed; a read that throws is caught (482-484).
RedisRateLimited(S, readOk) ==
  LET oldCache == IF readOk /\ LEETCODE_CACHE_KEY \in DOMAIN S.db
                  THEN S.db[LEETCODE_CACHE_KEY] ELSE Null
      data     == Property(oldCache, "data")
      users    == Property(data, "users")
  IN  [ S EXCEPT
          !.getPc = "idle",
          !.processed = CacheData(<< >>, << >>),
          !.response =
            IF Truthy(oldCache) /\ Truthy(data) /\ Truthy(users)
               /\ Len(users) > 0
            THEN SnapshotResponse("redis", 200, data, TRUE, TRUE)
            ELSE RateLimitedResponse("redis") ]

\* part_002:448-513: the rest of GET of the Redis-backed route. It calls the
\* store once at most, to read the old snapshot or to write the new one;
\* storeOk tells whether that call succeeds.
RedisFetched(S, outcomes, storeOk) ==
  LET usersResults == FetchedInTurn(outcomes, 1)
  IN  IF \E i \in DOMAIN usersResults : usersResults[i] = "rateLimited"
      THEN RedisRateLimited(S, storeOk)
      ELSE SnapshotProcessed(S, "redis", LEETCODE_CACHE_KEY, usersResults,
                             storeOk)

\* part_002:872-906: the rest of GET of the file-backed route, which fetches
\* all users at once.
FileFetched(S, outcomes, writeOk) ==
  IF \E i \in DOMAIN outcomes : outcomes[i] = "rateLimited"
  THEN [ S EXCEPT !.getPc = "idle",
                  !.processed = CacheData(<< >>, << >>),
                  !.response = RateLimitedResponse("file") ]
  ELSE SnapshotProcessed(S, "file", CACHE_FILE_PATH, outcomes, writeOk)

\* Half an hour passes.
HalfHourPasses ==
  /\ clock < MaxHalfHours * (SNAPSHOT_EXPIRY_MS \div 2)
  /\ Becomes([ Cur EXCEPT !.clock = @ + SNAPSHOT_EXPIRY_MS \div 2 ])

RedisRequest(readOk) ==
  /\ input = "redis"
  /\ getPc = "idle"
  /\ Becomes(SnapshotRequested(Cur, "redis", LEETCODE_CACHE_KEY, readOk))

RedisAnswered(outcomes, storeOk) ==
  /\ getPc = "redis"
  /\ Becomes(RedisFetched(Cur, outcomes, storeOk))

FileRequest(readOk) ==
  /\ input = "file"
  /\ getPc = "idle"
  /\ Becomes(SnapshotRequested(Cur, "file", CACHE_FILE_PATH, readOk))

FileAnswered(outcomes, writeOk) ==
  /\ getPc = "file"
  /\ Becomes(FileFetched(Cur, outcomes, writeOk))

\* The two routes are versions of one file: input is the version that is
\* deployed, with a store that is empty at first.
InitSnapshot ==
  \E route \in { "redis", "file" } :
    /\ AtStart(FirstNames(SnapshotRosterSize), 0)
    /\ DOMAIN db = { }
    /\ input = route
    /\ output = << >>

NextSnapshot ==
  \/ HalfHourPasses
  \/ \E readOk \in BOOLEAN : RedisRequest(readOk)
  \/ \E outcomes \in [ 1 .. SnapshotRosterSize -> SnapshotOutcomes ],
        storeOk \in BOOLEAN :
       RedisAnswered(outcomes, storeOk)
  \/ \E readOk \in BOOLEAN : FileRequest(readOk)
  \/ \E outcomes \in [ 1 .. SnapshotRosterSize -> SnapshotOutcomes ],
        writeOk \in BOOLEAN :
       FileAnswered(outcomes, writeOk)

\* Requests to a snapshot route, one at a time, as time passes.
SpecSnapshot == InitSnapshot /\ [][NextSnapshot]_vars

\* The snapshot stored under key.
Snapshot(key) == JSONparse(db[key])

\* C38: in the Redis- and file-backed routes a fetch cycle that yields no
\* processed user leaves the store as it is.
C38_FailedCycleKeepsCache ==
  [][ (getPc \in { "redis", "file" } /\ getPc' = "idle"
       /\ processed'.users = << >>) => db' = db ]_vars

\* A cycle of either route has ended without a user while its store holds
\* a snapshot, expired, with a user.
C38_Witness ==
  \E key \in { LEETCODE_CACHE_KEY, CACHE_FILE_PATH } :
    /\ getPc = "idle"
    /\ response.kind = (IF key = LEETCODE_CACHE_KEY THEN "redis" ELSE "file")
    /\ ~response.fromCache
    /\ response.users = << >>
    /\ key \in DOMAIN db
    /\ Len(Snapshot(key).data.users) > 0
    /\ ~loadCacheHit(Snapshot(key).timestamp, Now)

\* C39: a rate-limited cycle of the Redis-backed route is answered 200 with
\* the users of the stored snapshot, fromCache and rateLimited, when that
\* snapshot has a user, and 429 only when there is none.
C39_Original ==
  (response.kind = "redis" /\ response.rateLimited)
    => IF /\ LEETCODE_CACHE_KEY \in DOMAIN db
          /\ Len(Snapshot(LEETCODE_CACHE_KEY).data.users) > 0
       THEN /\ response.status = 200
            /\ response.users = Snapshot(LEETCODE_CACHE_KEY).data.users
            /\ response.fromCache
       ELSE response.status = 429

====
